---- MODULE Spec2Model ----
(***************************************************************************)
(* State-machine model of the TinyUSB mass-storage backend of esp-usb,     *)
(* device/esp_tinyusb/tusb_msc_storage.c.                                  *)
(*                                                                         *)
(* Every public function and every TinyUSB MSC callback is one action; the *)
(* static helpers are operators with the source's names.  The calls made   *)
(* into the collaborators (wear levelling, SD/MMC driver, TinyUSB sense,   *)
(* malloc and free) during the last operation are kept in `calls`, the     *)
(* operation itself, its arguments and its result in `last`.               *)
(*                                                                         *)
(* Integer widths are scaled: unsigned int / size_t / uint32_t have        *)
(* AddrBits bits, int32_t is its signed counterpart, uint16_t has          *)
(* Uint16Bits bits.  The arithmetic wraps at these widths exactly as the   *)
(* 32 and 16 bit arithmetic of the source does.                            *)
(*                                                                         *)
(* assert() is modelled as compiled in: a failed assertion aborts the      *)
(* program (status "abort", halted).  A division or modulo by zero is      *)
(* undefined behaviour: the model picks nondeterministically between a     *)
(* trap (status "trap", halted) and an arbitrary result value.             *)
(***************************************************************************)
EXTENDS Integers, Sequences, FiniteSets, TLC

\* ------------------------------------------------------------- widths
AddrBits == 18
Uint16Bits == 12
UINT_MAX == 2^AddrBits - 1
INT32_MAX == 2^(AddrBits - 1) - 1
UINT16_MOD == 2^Uint16Bits

\* ------------------------------------------------------------- bounds
NumBlocks == 2          \* heap blocks malloc can hand out
NumCallbacks == 1       \* distinct non-null callback pointers

\* ------------------------------------------------------------- constants
NULL == 0
WL_INVALID_HANDLE == -1
TINYUSB_MSC_EVENT_MOUNT_CHANGED == 0
TINYUSB_MSC_EVENT_PREMOUNT_CHANGED == 1
SCSI_CMD_PREVENT_ALLOW_MEDIUM_REMOVAL == 30
SCSI_SENSE_ILLEGAL_REQUEST == 5
SCSI_CODE_ASC_INVALID_COMMAND_OPERATION_CODE == 32
SCSI_CODE_ASCQ == 0
DEFAULT_MAX_FILES == 2

ESP_OK == "ESP_OK"
ESP_FAIL == "ESP_FAIL"
ESP_ERR_NO_MEM == "ESP_ERR_NO_MEM"
ESP_ERR_INVALID_ARG == "ESP_ERR_INVALID_ARG"
ESP_ERR_INVALID_SIZE == "ESP_ERR_INVALID_SIZE"

FN_NULL == "NULL"       \* a null function pointer in the capability table

\* ------------------------------------------------------------- environment
\* wear-levelling volumes the application can hand to init (wl_handle_t values)
WlHandles == {WL_INVALID_HANDLE, 0, 1}
\* sdmmc_card_t pointers the application can hand to init.  An initialised card
\* carries the sector size decoded from its CSD, which is never zero; the zero
\* sector size is modelled on the flash backend, where the source expects it.
Cards == {NULL, 1, 2}
Callbacks == 1..NumCallbacks
Blocks == 1..NumBlocks

\* wl_sector_size(handle): volume 1 reports a zero sector size
wl_sector_size(h) == CASE h = 0 -> 512 [] OTHER -> 0
\* wl_size(handle) in bytes
wl_size(h) == CASE h = 0 -> 8192 + 100 [] OTHER -> 1000
\* card->csd.sector_size: card 2 reports a sector size that does not fit the
\* uint16_t block size of the capacity callback
csd_sector_size(c) == CASE c = 2 -> 4096 [] OTHER -> 512
\* card->csd.capacity in sectors
csd_capacity(c) == CASE c = 1 -> 64 [] OTHER -> 4096

\* error codes a backend primitive can return
BackendErrs == {ESP_OK, ESP_FAIL, ESP_ERR_INVALID_ARG}

\* outcomes of a division or modulo by zero (undefined behaviour)
NoUB == [trap |-> FALSE, val |-> 0]
UBOutcomes == {[trap |-> TRUE, val |-> 0], [trap |-> FALSE, val |-> 0],
               [trap |-> FALSE, val |-> 1]}

\* request parameters the protocol engine passes to READ10 / WRITE10
MaxLba512 == (UINT_MAX + 1) \div 512 - 1
LbaInputs == {10, MaxLba512, UINT_MAX}
OffsetInputs == {0, 1, 512}
SizeInputs == {512, 513, 1024}
MaxFilesInputs == {-1, 0, 3}
EventInputs == {TINYUSB_MSC_EVENT_MOUNT_CHANGED, TINYUSB_MSC_EVENT_PREMOUNT_CHANGED, 2}
ScsiCmdInputs == {0, 29, SCSI_CMD_PREVENT_ALLOW_MEDIUM_REMOVAL, 31, 255}
LunInputs == {0, 1}

\* ------------------------------------------------------------- state
VARIABLES
    s_storage_handle,   \* the global pointer: NULL or a heap block
    heap,               \* contents of the heap blocks (tinyusb_msc_storage_handle_s)
    allocated,          \* heap blocks malloc'ed and not yet freed
    calls,              \* collaborator calls made by the last operation, in order
    last,               \* the last operation: name, arguments, status, result, and
                        \* the backend of the handle a deinit released before it
    halted              \* the program was aborted (failed assert) or trapped

vars == <<s_storage_handle, heap, allocated, calls, last, halted>>

\* contents of a block that holds no handle
NoHandle == [member |-> "none", ref |-> 0,
             sector_count |-> FN_NULL, sector_size |-> FN_NULL,
             read |-> FN_NULL, write |-> FN_NULL,
             callback_mount_changed |-> NULL, callback_premount_changed |-> NULL,
             max_files |-> 0]

\* *s_storage_handle
Handle == heap[s_storage_handle]

\* ------------------------------------------------------------- results
Returned(v, e, c) == [status |-> "returned", ret |-> v, err |-> e, calls |-> c]
Aborted(c) == [status |-> "abort", ret |-> "none", err |-> "none", calls |-> c]
Trapped(c) == [status |-> "trap", ret |-> "none", err |-> "none", calls |-> c]

\* ------------------------------------------------------------- arithmetic
\* __builtin_umul_overflow(a, b, &res): the wrapped product, and whether it wrapped
__builtin_umul_overflow(a, b) ==
    [ovf |-> a * b > UINT_MAX, res |-> (a * b) % (UINT_MAX + 1)]

\* mutant: an addition whose overflow goes unreported
uadd_unchecked(a, b) == [ovf |-> FALSE, res |-> (a + b) % (UINT_MAX + 1)]

\* __builtin_uadd_overflow(a, b, &res): the wrapped sum, and whether it wrapped
__builtin_uadd_overflow(a, b) ==
    [ovf |-> a + b > UINT_MAX, res |-> (a + b) % (UINT_MAX + 1)]

\* a % b on unsigned operands; b = 0 is undefined behaviour, outcome ub
umod(a, b, ub) == IF b = 0 THEN ub ELSE [trap |-> FALSE, val |-> a % b]

\* a / b on unsigned operands; b = 0 is undefined behaviour, outcome ub
udiv(a, b, ub) == IF b = 0 THEN ub ELSE [trap |-> FALSE, val |-> a \div b]

\* (int32_t)u: the conversion of the uint32_t bufsize to the int32_t return value
ToInt32(u) == IF u > INT32_MAX THEN u - (UINT_MAX + 1) ELSE u

\* (uint16_t)u
ToUint16(u) == u % UINT16_MOD

\* ------------------------------------------------------------- flash backend
\* h is *s_storage_handle.  Geometry getters return [status, ret, err, calls].
\* mutant: a flash sector count that divides without testing the sector size;
\* the division by zero traps
_get_sector_count_spiflash_unguarded(h) ==
    IF h.ref = WL_INVALID_HANDLE THEN Aborted(<<>>)
    ELSE LET size == wl_sector_size(h.ref) IN
         IF size = 0 THEN Trapped(<<>>)
         ELSE Returned((wl_size(h.ref) \div size) % (UINT_MAX + 1), "none", <<>>)

_get_sector_count_spiflash(h) ==
    IF h.ref = WL_INVALID_HANDLE THEN Aborted(<<>>)
    ELSE LET size == wl_sector_size(h.ref) IN
         IF size = 0 THEN Returned(0, "none", <<>>)
         ELSE Returned((wl_size(h.ref) \div size) % (UINT_MAX + 1), "none", <<>>)

_get_sector_size_spiflash(h) ==
    IF h.ref = WL_INVALID_HANDLE THEN Aborted(<<>>)
    ELSE Returned(wl_sector_size(h.ref), "none", <<>>)

\* mutant: a flash read that rejects a misaligned request as the write path does
_read_sector_spiflash_aligned(h, sector_size, lba, offset, size, env) ==
    LET m == __builtin_umul_overflow(lba, sector_size)
        a == __builtin_uadd_overflow(m.res, offset)
    IN  IF m.ovf THEN Returned("none", ESP_ERR_INVALID_SIZE, <<>>)
        ELSE IF a.ovf THEN Returned("none", ESP_ERR_INVALID_SIZE, <<>>)
        ELSE IF sector_size # 0 /\ (a.res % sector_size # 0 \/ size % sector_size # 0)
             THEN Returned("none", ESP_ERR_INVALID_ARG, <<>>)
        ELSE Returned("none", env.io,
                 <<[op |-> "wl_read", handle |-> h.ref, addr |-> a.res,
                    size |-> size, res |-> env.io]>>)

\* env.io is the error code wl_read would return
_read_sector_spiflash(h, sector_size, lba, offset, size, env) ==
    LET m == __builtin_umul_overflow(lba, sector_size)
        a == __builtin_uadd_overflow(m.res, offset)
    IN  IF m.ovf THEN Returned("none", ESP_ERR_INVALID_SIZE, <<>>)
        ELSE IF a.ovf THEN Returned("none", ESP_ERR_INVALID_SIZE, <<>>)
        ELSE Returned("none", env.io,
                 <<[op |-> "wl_read", handle |-> h.ref, addr |-> a.res,
                    size |-> size, res |-> env.io]>>)

\* mutant: a flash write that ignores the result of the erase
_write_sector_spiflash_ignoring_erase(h, sector_size, addr, lba, offset, size, env) ==
    Returned("none", env.io,
        <<[op |-> "wl_erase_range", handle |-> h.ref, addr |-> addr,
           size |-> size, res |-> env.erase],
          [op |-> "wl_write", handle |-> h.ref, addr |-> addr,
           size |-> size, res |-> env.io]>>)

\* mutant: a flash write that erases at addr and writes at the sector's start,
\* dropping the offset
_write_sector_spiflash_at_sector(h, sector_size, addr, lba, offset, size, env) ==
    LET erase == [op |-> "wl_erase_range", handle |-> h.ref, addr |-> addr,
                  size |-> size, res |-> env.erase]
        write == [op |-> "wl_write", handle |-> h.ref, addr |-> lba * sector_size,
                  size |-> size, res |-> env.io]
    IN  IF env.erase # ESP_OK THEN Returned("none", env.erase, <<erase>>)
        ELSE Returned("none", env.io, <<erase, write>>)

\* env.erase is the error code wl_erase_range would return, env.io that of wl_write
_write_sector_spiflash(h, sector_size, addr, lba, offset, size, env) ==
    LET erase == [op |-> "wl_erase_range", handle |-> h.ref, addr |-> addr,
                  size |-> size, res |-> env.erase]
        write == [op |-> "wl_write", handle |-> h.ref, addr |-> addr,
                  size |-> size, res |-> env.io]
    IN  IF env.erase # ESP_OK THEN Returned("none", env.erase, <<erase>>)
        ELSE Returned("none", env.io, <<erase, write>>)

\* ------------------------------------------------------------- SD/MMC backend
_get_sector_count_sdmmc(h) ==
    IF h.ref = NULL THEN Aborted(<<>>)
    ELSE Returned(csd_capacity(h.ref) % (UINT_MAX + 1), "none", <<>>)

_get_sector_size_sdmmc(h) ==
    IF h.ref = NULL THEN Aborted(<<>>)
    ELSE Returned(csd_sector_size(h.ref) % (UINT_MAX + 1), "none", <<>>)

\* mutant: an SD/MMC read that tries a second time when the card reports an error
_read_sector_sdmmc_retrying(h, sector_size, lba, offset, size, env) ==
    LET n == udiv(size, sector_size, env.ub3)
        rd == [op |-> "sdmmc_read_sectors", card |-> h.ref, start_sector |-> lba,
               sector_count |-> n.val, res |-> env.io]
    IN  IF n.trap THEN Trapped(<<>>)
        ELSE IF env.io # ESP_OK THEN Returned("none", env.io, <<rd, rd>>)
        ELSE Returned("none", env.io, <<rd>>)

\* env.io is the error code sdmmc_read_sectors would return, env.ub3 the outcome
\* of size / sector_size when sector_size is zero
_read_sector_sdmmc(h, sector_size, lba, offset, size, env) ==
    LET n == udiv(size, sector_size, env.ub3) IN
    IF n.trap THEN Trapped(<<>>)
    ELSE Returned("none", env.io,
             <<[op |-> "sdmmc_read_sectors", card |-> h.ref, start_sector |-> lba,
                sector_count |-> n.val, res |-> env.io]>>)

\* mutant: an SD/MMC write that derives the start sector from the byte address
_write_sector_sdmmc_from_addr(h, sector_size, addr, lba, offset, size, env) ==
    LET n == udiv(size, sector_size, env.ub3)
        s == udiv(addr, sector_size, env.ub3)
    IN  IF n.trap THEN Trapped(<<>>)
        ELSE Returned("none", env.io,
                 <<[op |-> "sdmmc_write_sectors", card |-> h.ref,
                    start_sector |-> s.val, sector_count |-> n.val,
                    res |-> env.io]>>)

_write_sector_sdmmc(h, sector_size, addr, lba, offset, size, env) ==
    LET n == udiv(size, sector_size, env.ub3) IN
    IF n.trap THEN Trapped(<<>>)
    ELSE Returned("none", env.io,
             <<[op |-> "sdmmc_write_sectors", card |-> h.ref, start_sector |-> lba,
                sector_count |-> n.val, res |-> env.io]>>)

\* ------------------------------------------------------------- dispatch
\* (s_storage_handle->sector_count)()
CallSectorCount(h) ==
    CASE h.sector_count = "_get_sector_count_spiflash" -> _get_sector_count_spiflash(h)
      [] h.sector_count = "_get_sector_count_sdmmc" -> _get_sector_count_sdmmc(h)

\* (s_storage_handle->sector_size)()
CallSectorSize(h) ==
    CASE h.sector_size = "_get_sector_size_spiflash" -> _get_sector_size_spiflash(h)
      [] h.sector_size = "_get_sector_size_sdmmc" -> _get_sector_size_sdmmc(h)

\* (s_storage_handle->read)(sector_size, lba, offset, size, dest)
CallRead(h, sector_size, lba, offset, size, env) ==
    CASE h.read = "_read_sector_spiflash" ->
             _read_sector_spiflash(h, sector_size, lba, offset, size, env)
      [] h.read = "_read_sector_sdmmc" ->
             _read_sector_sdmmc(h, sector_size, lba, offset, size, env)

\* (s_storage_handle->write)(sector_size, addr, lba, offset, size, src)
CallWrite(h, sector_size, addr, lba, offset, size, env) ==
    CASE h.write = "_write_sector_spiflash" ->
             _write_sector_spiflash(h, sector_size, addr, lba, offset, size, env)
      [] h.write = "_write_sector_sdmmc" ->
             _write_sector_sdmmc(h, sector_size, addr, lba, offset, size, env)

\* ------------------------------------------------------------- storage layer
tinyusb_msc_storage_get_sector_count ==
    IF s_storage_handle = NULL THEN Aborted(<<>>)
    ELSE CallSectorCount(Handle)

tinyusb_msc_storage_get_sector_size ==
    IF s_storage_handle = NULL THEN Aborted(<<>>)
    ELSE CallSectorSize(Handle)

msc_storage_read_sector(lba, offset, size, env) ==
    IF s_storage_handle = NULL THEN Aborted(<<>>)
    ELSE LET ss == tinyusb_msc_storage_get_sector_size IN
         IF ss.status # "returned" THEN ss
         ELSE CallRead(Handle, ss.ret, lba, offset, size, env)

\* mutant: an alignment test that forgets the size
write_misaligned_addr_only(addr, size, sector_size, env) ==
    LET r1 == umod(addr, sector_size, env.ub1)
    IN  IF r1.trap THEN [trap |-> TRUE, val |-> FALSE]
        ELSE [trap |-> FALSE, val |-> r1.val # 0]

\* the alignment test of msc_storage_write_sector:
\*   addr % sector_size != 0 || size % sector_size != 0
\* env.ub1 and env.ub2 are the outcomes of the two modulo operations when
\* sector_size is zero; the second operand of || is evaluated only when the first
\* is false.  The result is [trap, val] with val the truth of the condition.
write_misaligned(addr, size, sector_size, env) ==
    LET r1 == umod(addr, sector_size, env.ub1)
        r2 == umod(size, sector_size, env.ub2)
    IN  IF r1.trap THEN [trap |-> TRUE, val |-> FALSE]
        ELSE IF r1.val # 0 THEN [trap |-> FALSE, val |-> TRUE]
        ELSE IF r2.trap THEN [trap |-> TRUE, val |-> FALSE]
        ELSE [trap |-> FALSE, val |-> r2.val # 0]

msc_storage_write_sector(lba, offset, size, env) ==
    IF s_storage_handle = NULL THEN Aborted(<<>>)
    ELSE LET ss == tinyusb_msc_storage_get_sector_size IN
         IF ss.status # "returned" THEN ss
         ELSE LET sector_size == ss.ret
                  m == __builtin_umul_overflow(lba, sector_size)
                  a == __builtin_uadd_overflow(m.res, offset)
                  mis == write_misaligned(a.res, size, sector_size, env)
              IN  IF m.ovf THEN Returned("none", ESP_ERR_INVALID_SIZE, <<>>)
                  ELSE IF a.ovf THEN Returned("none", ESP_ERR_INVALID_SIZE, <<>>)
                  ELSE IF mis.trap THEN Trapped(<<>>)
                  ELSE IF mis.val THEN Returned("none", ESP_ERR_INVALID_ARG, <<>>)
                  ELSE CallWrite(Handle, sector_size, a.res, lba, offset, size, env)

\* ------------------------------------------------------------- callbacks
\* mutant: a register whose mount case has no return and falls into the premount
\* case
register_callback_fallthrough(h, event_type, callback) ==
    CASE event_type = TINYUSB_MSC_EVENT_MOUNT_CHANGED ->
             [ret |-> ESP_OK, h |-> [h EXCEPT !.callback_mount_changed = callback,
                                              !.callback_premount_changed = callback]]
      [] event_type = TINYUSB_MSC_EVENT_PREMOUNT_CHANGED ->
             [ret |-> ESP_OK, h |-> [h EXCEPT !.callback_premount_changed = callback]]
      [] OTHER -> [ret |-> ESP_ERR_INVALID_ARG, h |-> h]

\* mutant: a register that stores the mount callback over the union
register_callback_into_union(h, event_type, callback) ==
    CASE event_type = TINYUSB_MSC_EVENT_MOUNT_CHANGED ->
             [ret |-> ESP_OK, h |-> [h EXCEPT !.ref = callback]]
      [] event_type = TINYUSB_MSC_EVENT_PREMOUNT_CHANGED ->
             [ret |-> ESP_OK, h |-> [h EXCEPT !.callback_premount_changed = callback]]
      [] OTHER -> [ret |-> ESP_ERR_INVALID_ARG, h |-> h]

\* tinyusb_msc_register_callback after its assert: h is *s_storage_handle;
\* the result is the esp_err_t and the handle's new contents
tinyusb_msc_register_callback(h, event_type, callback) ==
    CASE event_type = TINYUSB_MSC_EVENT_MOUNT_CHANGED ->
             [ret |-> ESP_OK, h |-> [h EXCEPT !.callback_mount_changed = callback]]
      [] event_type = TINYUSB_MSC_EVENT_PREMOUNT_CHANGED ->
             [ret |-> ESP_OK, h |-> [h EXCEPT !.callback_premount_changed = callback]]
      [] OTHER -> [ret |-> ESP_ERR_INVALID_ARG, h |-> h]

\* mutant: an unregister whose default case falls into the premount case
unregister_callback_fallthrough(h, event_type) ==
    CASE event_type = TINYUSB_MSC_EVENT_MOUNT_CHANGED ->
             [ret |-> ESP_OK, h |-> [h EXCEPT !.callback_mount_changed = NULL]]
      [] event_type = TINYUSB_MSC_EVENT_PREMOUNT_CHANGED ->
             [ret |-> ESP_OK, h |-> [h EXCEPT !.callback_premount_changed = NULL]]
      [] OTHER -> [ret |-> ESP_ERR_INVALID_ARG,
                   h |-> [h EXCEPT !.callback_premount_changed = NULL]]

\* tinyusb_msc_unregister_callback after its assert
tinyusb_msc_unregister_callback(h, event_type) ==
    CASE event_type = TINYUSB_MSC_EVENT_MOUNT_CHANGED ->
             [ret |-> ESP_OK, h |-> [h EXCEPT !.callback_mount_changed = NULL]]
      [] event_type = TINYUSB_MSC_EVENT_PREMOUNT_CHANGED ->
             [ret |-> ESP_OK, h |-> [h EXCEPT !.callback_premount_changed = NULL]]
      [] OTHER -> [ret |-> ESP_ERR_INVALID_ARG, h |-> h]

\* "Callbacks setting up" of both init functions: register the callback the
\* configuration supplies, unregister when it supplies none
setup_callbacks(h, config) ==
    LET h1 == IF config.callback_mount_changed # NULL
              THEN tinyusb_msc_register_callback(h, TINYUSB_MSC_EVENT_MOUNT_CHANGED,
                                                 config.callback_mount_changed).h
              ELSE tinyusb_msc_unregister_callback(h, TINYUSB_MSC_EVENT_MOUNT_CHANGED).h
    IN  IF config.callback_premount_changed # NULL
        THEN tinyusb_msc_register_callback(h1, TINYUSB_MSC_EVENT_PREMOUNT_CHANGED,
                                           config.callback_premount_changed).h
        ELSE tinyusb_msc_unregister_callback(h1, TINYUSB_MSC_EVENT_PREMOUNT_CHANGED).h

\* ------------------------------------------------------------- init / deinit
\* malloc(sizeof(tinyusb_msc_storage_handle_s)): NULL, or a block that is not in use
MallocResults ==
    {NULL} \cup {b \in Blocks : b \notin allocated /\ \A c \in Blocks \ allocated : b <= c}

\* the capability table tinyusb_msc_storage_init_spiflash binds
spiflash_capabilities ==
    [sector_count |-> "_get_sector_count_spiflash",
     sector_size |-> "_get_sector_size_spiflash",
     read |-> "_read_sector_spiflash",
     write |-> "_write_sector_spiflash"]

\* mutant: an SD/MMC capability table whose read entry was copied from the flash one
sdmmc_capabilities_flash_read ==
    [sector_count |-> "_get_sector_count_sdmmc",
     sector_size |-> "_get_sector_size_sdmmc",
     read |-> "_read_sector_spiflash",
     write |-> "_write_sector_sdmmc"]

\* the capability table tinyusb_msc_storage_init_sdmmc binds
sdmmc_capabilities ==
    [sector_count |-> "_get_sector_count_sdmmc",
     sector_size |-> "_get_sector_size_sdmmc",
     read |-> "_read_sector_sdmmc",
     write |-> "_write_sector_sdmmc"]

\* mutant: a default that lets a max_files of zero through
default_max_files_nonnegative(max_files) ==
    IF max_files >= 0 THEN max_files ELSE DEFAULT_MAX_FILES

\* max_files > 0 ? max_files : 2
default_max_files(max_files) == IF max_files > 0 THEN max_files ELSE DEFAULT_MAX_FILES

\* the handle an init function builds in the malloc'ed block: the capability
\* table, the union member, max_files, then the two callbacks
new_handle(caps, member, ref, config) ==
    setup_callbacks(
        [member |-> member, ref |-> ref,
         sector_count |-> caps.sector_count, sector_size |-> caps.sector_size,
         read |-> caps.read, write |-> caps.write,
         callback_mount_changed |-> NULL, callback_premount_changed |-> NULL,
         max_files |-> default_max_files(config.max_files)],
        config)

\* result of a function that changes the handle: status and ret as above, and
\* the new values of s_storage_handle, heap and allocated
Effect(status, ret, p, hp, al) ==
    [status |-> status, ret |-> ret, err |-> "none", calls |-> <<>>,
     s_storage_handle |-> p, heap |-> hp, allocated |-> al]

\* mutant: an init body that does not test what malloc returned and writes the
\* capability table through the null pointer
init_after_assert_unchecked(caps, member, ref, config, m) ==
    LET malloc == <<[op |-> "malloc", res |-> m]>> IN
    IF m = NULL
    THEN [Effect("trap", "none", NULL, heap, allocated) EXCEPT !.calls = malloc]
    ELSE [Effect("returned", ESP_OK, m,
                 [heap EXCEPT ![m] = new_handle(caps, member, ref, config)],
                 allocated \cup {m})
             EXCEPT !.calls = malloc]

\* the body of an init function after its assert(!s_storage_handle); m is what
\* malloc returns
init_after_assert(caps, member, ref, config, m) ==
    LET malloc == <<[op |-> "malloc", res |-> m]>> IN
    IF m = NULL
    THEN [Effect("returned", ESP_ERR_NO_MEM, NULL, heap, allocated)
             EXCEPT !.calls = malloc]
    ELSE [Effect("returned", ESP_OK, m,
                 [heap EXCEPT ![m] = new_handle(caps, member, ref, config)],
                 allocated \cup {m})
             EXCEPT !.calls = malloc]

tinyusb_msc_storage_init_spiflash(config, m) ==
    IF s_storage_handle # NULL
    THEN Effect("abort", "none", s_storage_handle, heap, allocated)
    ELSE init_after_assert(spiflash_capabilities, "wl_handle", config.wl_handle, config, m)

\* mutant: an init without its assert(!s_storage_handle)
init_sdmmc_unasserted(config, m) ==
    init_after_assert(sdmmc_capabilities, "card", config.card, config, m)

tinyusb_msc_storage_init_sdmmc(config, m) ==
    IF s_storage_handle # NULL
    THEN Effect("abort", "none", s_storage_handle, heap, allocated)
    ELSE init_after_assert(sdmmc_capabilities, "card", config.card, config, m)

\* mutant: a deinit that frees the handle and keeps the pointer to it
deinit_keeping_pointer ==
    IF s_storage_handle = NULL
    THEN Effect("abort", "none", s_storage_handle, heap, allocated)
    ELSE [Effect("returned", "none", s_storage_handle, heap,
                 allocated \ {s_storage_handle})
             EXCEPT !.calls = <<[op |-> "free", ptr |-> s_storage_handle]>>]

tinyusb_msc_storage_deinit ==
    IF s_storage_handle = NULL
    THEN Effect("abort", "none", s_storage_handle, heap, allocated)
    ELSE [Effect("returned", "none", NULL,
                 [heap EXCEPT ![s_storage_handle] = NoHandle],
                 allocated \ {s_storage_handle})
             EXCEPT !.calls = <<[op |-> "free", ptr |-> s_storage_handle]>>]

\* ------------------------------------------------------------- TinyUSB MSC callbacks
tud_msc_inquiry_cb(lun) ==
    Returned([vendor_id |-> "TinyUSB", product_id |-> "Flash Storage",
              product_rev |-> "0.1"], "none", <<>>)

\* mutant: a test-unit-ready that reports whether a storage handle exists
test_unit_ready_cb_medium_present(lun) ==
    Returned(s_storage_handle # NULL, "none", <<>>)

tud_msc_test_unit_ready_cb(lun) == Returned(TRUE, "none", <<>>)

\* mutant: a capacity callback whose block size is as wide as the sector size
capacity_cb_untruncated(lun) ==
    LET sec_count == tinyusb_msc_storage_get_sector_count IN
    IF sec_count.status # "returned" THEN sec_count
    ELSE LET sec_size == tinyusb_msc_storage_get_sector_size IN
         IF sec_size.status # "returned" THEN sec_size
         ELSE Returned([block_count |-> sec_count.ret,
                        block_size |-> sec_size.ret], "none", <<>>)

tud_msc_capacity_cb(lun) ==
    LET sec_count == tinyusb_msc_storage_get_sector_count IN
    IF sec_count.status # "returned" THEN sec_count
    ELSE LET sec_size == tinyusb_msc_storage_get_sector_size IN
         IF sec_size.status # "returned" THEN sec_size
         ELSE Returned([block_count |-> sec_count.ret,
                        block_size |-> ToUint16(sec_size.ret)], "none", <<>>)

tud_msc_start_stop_cb(lun, power_condition, start, load_eject) ==
    Returned(TRUE, "none", <<>>)

\* mutant: a READ10 callback that signals failure with a negative value
read10_negative_on_error(lun, lba, offset, bufsize, env) ==
    LET r == msc_storage_read_sector(lba, offset, bufsize, env) IN
    IF r.status # "returned" THEN r
    ELSE IF r.err # ESP_OK THEN Returned(-1, r.err, r.calls)
    ELSE Returned(ToInt32(bufsize), r.err, r.calls)

\* the result keeps the esp_err_t of msc_storage_read_sector in err
tud_msc_read10_cb(lun, lba, offset, bufsize, env) ==
    LET r == msc_storage_read_sector(lba, offset, bufsize, env) IN
    IF r.status # "returned" THEN r
    ELSE IF r.err # ESP_OK THEN Returned(0, r.err, r.calls)
    ELSE Returned(ToInt32(bufsize), r.err, r.calls)

\* the result keeps the esp_err_t of msc_storage_write_sector in err
tud_msc_write10_cb(lun, lba, offset, bufsize, env) ==
    LET r == msc_storage_write_sector(lba, offset, bufsize, env) IN
    IF r.status # "returned" THEN r
    ELSE IF r.err # ESP_OK THEN Returned(0, r.err, r.calls)
    ELSE Returned(ToInt32(bufsize), r.err, r.calls)

\* mutant: a generic SCSI callback that fails without setting the sense condition
scsi_cb_without_sense(lun, scsi_cmd0) ==
    IF scsi_cmd0 = SCSI_CMD_PREVENT_ALLOW_MEDIUM_REMOVAL
    THEN Returned(0, "none", <<>>)
    ELSE Returned(-1, "none", <<>>)

\* scsi_cmd0 is scsi_cmd[0], the operation code
tud_msc_scsi_cb(lun, scsi_cmd0) ==
    IF scsi_cmd0 = SCSI_CMD_PREVENT_ALLOW_MEDIUM_REMOVAL
    THEN Returned(0, "none", <<>>)
    ELSE Returned(-1, "none",
             <<[op |-> "tud_msc_set_sense", lun |-> lun,
                sense_key |-> SCSI_SENSE_ILLEGAL_REQUEST,
                asc |-> SCSI_CODE_ASC_INVALID_COMMAND_OPERATION_CODE,
                ascq |-> SCSI_CODE_ASCQ]>>)

\* ------------------------------------------------------------- environment choices
\* the active backend reports a zero sector size
ZeroSectorSize ==
    /\ s_storage_handle # NULL
    /\ tinyusb_msc_storage_get_sector_size.status = "returned"
    /\ tinyusb_msc_storage_get_sector_size.ret = 0

\* outcomes a division or modulo by the sector size can have in this state
UBChoices == IF ZeroSectorSize THEN UBOutcomes ELSE {NoUB}

\* the environment of a request: the error code each backend primitive would
\* return and the outcome of each operation with a zero divisor.  An outcome that
\* the request cannot consult (ub2 after ub1 trapped or made the test true, ub3
\* after either, erase on the SD/MMC backend) is held at its first value, so that
\* no environment is enumerated twice.
Consulted(e) ==
    /\ e.ub1 # NoUB => (e.ub2 = NoUB /\ e.ub3 = NoUB)
    /\ e.ub2 # NoUB => e.ub3 = NoUB
    /\ (s_storage_handle # NULL /\ Handle.member = "card") => e.erase = ESP_OK
    /\ (s_storage_handle # NULL /\ Handle.member = "wl_handle") => e.ub3 = NoUB

ReadEnvs ==
    {e \in [erase : {ESP_OK}, io : BackendErrs,
            ub1 : {NoUB}, ub2 : {NoUB}, ub3 : UBChoices] : Consulted(e)}

WriteEnvs ==
    {e \in [erase : BackendErrs, io : BackendErrs,
            ub1 : UBChoices, ub2 : UBChoices, ub3 : UBChoices] : Consulted(e)}

CallbackInputs == {NULL} \cup Callbacks

SpiflashConfigs ==
    [wl_handle : WlHandles, max_files : MaxFilesInputs,
     callback_mount_changed : CallbackInputs, callback_premount_changed : CallbackInputs]

SdmmcConfigs ==
    [card : Cards, max_files : MaxFilesInputs,
     callback_mount_changed : CallbackInputs, callback_premount_changed : CallbackInputs]

\* ------------------------------------------------------------- actions
Init ==
    /\ s_storage_handle = NULL
    /\ heap = [b \in Blocks |-> NoHandle]
    /\ allocated = {}
    /\ calls = <<>>
    /\ last = [op |-> "none", args |-> <<>>, status |-> "returned",
               ret |-> "none", err |-> "none", released |-> "none"]
    /\ halted = FALSE

InitOps == {"tinyusb_msc_storage_init_spiflash", "tinyusb_msc_storage_init_sdmmc"}

\* the backend whose handle was released before the operation op that ends with
\* result r: the one a deinit frees, carried through the init calls that return
\* after the deinit, and forgotten by every other operation
Released(op, r) ==
    IF op = "tinyusb_msc_storage_deinit"
    THEN (IF r.status = "returned" THEN Handle.member ELSE "none")
    ELSE IF op \in InitOps /\ r.status = "returned" THEN last.released
    ELSE "none"

\* record the operation and its outcome; a failed assert or a trap ends the program
Finish(op, args, r) ==
    /\ last' = [op |-> op, args |-> args, status |-> r.status,
                ret |-> r.ret, err |-> r.err, released |-> Released(op, r)]
    /\ calls' = r.calls
    /\ halted' = (r.status # "returned")

\* an operation that changes the handle
FinishEffect(op, args, r) ==
    /\ s_storage_handle' = r.s_storage_handle
    /\ heap' = r.heap
    /\ allocated' = r.allocated
    /\ Finish(op, args, r)

\* an operation that leaves the handle alone
FinishQuery(op, args, r) ==
    /\ UNCHANGED <<s_storage_handle, heap, allocated>>
    /\ Finish(op, args, r)

InitSpiflash ==
    /\ ~halted
    /\ \E config \in SpiflashConfigs, m \in MallocResults :
          FinishEffect("tinyusb_msc_storage_init_spiflash", config,
                       tinyusb_msc_storage_init_spiflash(config, m))

InitSdmmc ==
    /\ ~halted
    /\ \E config \in SdmmcConfigs, m \in MallocResults :
          FinishEffect("tinyusb_msc_storage_init_sdmmc", config,
                       tinyusb_msc_storage_init_sdmmc(config, m))

Deinit ==
    /\ ~halted
    /\ FinishEffect("tinyusb_msc_storage_deinit", <<>>, tinyusb_msc_storage_deinit)

\* assert(s_storage_handle), then the switch
RegisterCallback ==
    /\ ~halted
    /\ \E event_type \in EventInputs, callback \in CallbackInputs :
          LET args == [event_type |-> event_type, callback |-> callback] IN
          IF s_storage_handle = NULL
          THEN FinishEffect("tinyusb_msc_register_callback", args,
                   Effect("abort", "none", s_storage_handle, heap, allocated))
          ELSE LET r == tinyusb_msc_register_callback(Handle, event_type, callback) IN
               FinishEffect("tinyusb_msc_register_callback", args,
                   Effect("returned", r.ret, s_storage_handle,
                          [heap EXCEPT ![s_storage_handle] = r.h], allocated))

UnregisterCallback ==
    /\ ~halted
    /\ \E event_type \in EventInputs :
          LET args == [event_type |-> event_type] IN
          IF s_storage_handle = NULL
          THEN FinishEffect("tinyusb_msc_unregister_callback", args,
                   Effect("abort", "none", s_storage_handle, heap, allocated))
          ELSE LET r == tinyusb_msc_unregister_callback(Handle, event_type) IN
               FinishEffect("tinyusb_msc_unregister_callback", args,
                   Effect("returned", r.ret, s_storage_handle,
                          [heap EXCEPT ![s_storage_handle] = r.h], allocated))

GetSectorCount ==
    /\ ~halted
    /\ FinishQuery("tinyusb_msc_storage_get_sector_count", <<>>,
                   tinyusb_msc_storage_get_sector_count)

GetSectorSize ==
    /\ ~halted
    /\ FinishQuery("tinyusb_msc_storage_get_sector_size", <<>>,
                   tinyusb_msc_storage_get_sector_size)

Inquiry ==
    /\ ~halted
    /\ \E lun \in LunInputs :
          FinishQuery("tud_msc_inquiry_cb", [lun |-> lun], tud_msc_inquiry_cb(lun))

TestUnitReady ==
    /\ ~halted
    /\ \E lun \in LunInputs :
          FinishQuery("tud_msc_test_unit_ready_cb", [lun |-> lun],
                      tud_msc_test_unit_ready_cb(lun))

Capacity ==
    /\ ~halted
    /\ \E lun \in LunInputs :
          FinishQuery("tud_msc_capacity_cb", [lun |-> lun], tud_msc_capacity_cb(lun))

StartStop ==
    /\ ~halted
    /\ \E lun \in LunInputs, start \in BOOLEAN, load_eject \in BOOLEAN :
          FinishQuery("tud_msc_start_stop_cb",
                      [lun |-> lun, start |-> start, load_eject |-> load_eject],
                      tud_msc_start_stop_cb(lun, 0, start, load_eject))

Read10 ==
    /\ ~halted
    /\ \E lba \in LbaInputs, offset \in OffsetInputs, bufsize \in SizeInputs,
          env \in ReadEnvs :
          FinishQuery("tud_msc_read10_cb",
                      [lba |-> lba, offset |-> offset, bufsize |-> bufsize],
                      tud_msc_read10_cb(0, lba, offset, bufsize, env))

Write10 ==
    /\ ~halted
    /\ \E lba \in LbaInputs, offset \in OffsetInputs, bufsize \in SizeInputs,
          env \in WriteEnvs :
          FinishQuery("tud_msc_write10_cb",
                      [lba |-> lba, offset |-> offset, bufsize |-> bufsize],
                      tud_msc_write10_cb(0, lba, offset, bufsize, env))

ScsiCb ==
    /\ ~halted
    /\ \E lun \in LunInputs, scsi_cmd0 \in ScsiCmdInputs :
          FinishQuery("tud_msc_scsi_cb", [lun |-> lun, scsi_cmd0 |-> scsi_cmd0],
                      tud_msc_scsi_cb(lun, scsi_cmd0))

Next ==
    \/ InitSpiflash
    \/ InitSdmmc
    \/ Deinit
    \/ RegisterCallback
    \/ UnregisterCallback
    \/ GetSectorCount
    \/ GetSectorSize
    \/ Inquiry
    \/ TestUnitReady
    \/ Capacity
    \/ StartStop
    \/ Read10
    \/ Write10
    \/ ScsiCb

Spec == Init /\ [][Next]_vars

\* ============================================================= properties
\* vocabulary of the properties, stated on the request recorded in `last`
IsRead == last.op = "tud_msc_read10_cb"
IsWrite == last.op = "tud_msc_write10_cb"
Completed == last.status = "returned"
OnFlash == s_storage_handle # NULL /\ Handle.member = "wl_handle"
OnSdmmc == s_storage_handle # NULL /\ Handle.member = "card"

\* a handle exists and its backend reference is usable (neither WL_INVALID_HANDLE
\* nor a null card), so that the backend reports a sector size
ValidBackend ==
    /\ s_storage_handle # NULL
    /\ Handle.member = "wl_handle" => Handle.ref # WL_INVALID_HANDLE
    /\ Handle.member = "card" => Handle.ref # NULL

\* the sector size the active backend reports
ReportedSectorSize ==
    IF Handle.member = "wl_handle" THEN wl_sector_size(Handle.ref)
    ELSE csd_sector_size(Handle.ref)

\* lba * sector_size + offset of the last request, in unbounded arithmetic
ReqBase == last.args.lba * ReportedSectorSize
ReqAddr == ReqBase + last.args.offset
ReqOverflows == ReqBase > UINT_MAX \/ ReqAddr > UINT_MAX
ReqMisaligned ==
    \/ ReqAddr % ReportedSectorSize # 0
    \/ last.args.bufsize % ReportedSectorSize # 0

BackendPrimitives ==
    {"wl_read", "wl_erase_range", "wl_write", "sdmmc_read_sectors", "sdmmc_write_sectors"}
NoBackendCall == \A i \in 1..Len(calls) : calls[i].op \notin BackendPrimitives

RejectedInvalidSize ==
    /\ Completed
    /\ last.err = ESP_ERR_INVALID_SIZE
    /\ NoBackendCall

\* C1 (as amended): a write request on either backend, and a read request on the
\* flash backend, whose lba * sector_size overflows the address width, or whose
\* lba * sector_size + offset does, fails with invalid_size and invokes no
\* backend primitive.
C1_OverflowRejected ==
    ((IsWrite \/ (IsRead /\ OnFlash)) /\ ValidBackend /\ ReqOverflows)
        => RejectedInvalidSize

\* C1 as claimed: the same for every read and write request on either backend.
\* The SD/MMC read path computes no byte address and checks no overflow.
C1_OverflowRejectedEitherBackend ==
    ((IsWrite \/ IsRead) /\ ValidBackend /\ ReqOverflows) => RejectedInvalidSize

\* a flash read whose product fits and whose sum overflows was rejected
C1_Witness ==
    /\ IsRead /\ OnFlash /\ ValidBackend
    /\ ReqBase <= UINT_MAX /\ ReqAddr > UINT_MAX
    /\ RejectedInvalidSize

\* C2: a write request on either backend whose address does not overflow and
\* whose address or size is not a multiple of the (non-zero) sector size fails
\* with invalid_argument, and neither erase nor write is invoked.
C2_MisalignedWriteRejected ==
    (IsWrite /\ ValidBackend /\ ReportedSectorSize > 0 /\ ~ReqOverflows /\ ReqMisaligned)
        => (Completed /\ last.err = ESP_ERR_INVALID_ARG /\ NoBackendCall)

\* a write at an aligned address with a size that is no multiple of the sector
\* size was rejected
C2_Witness ==
    /\ IsWrite /\ ValidBackend /\ ReportedSectorSize > 0 /\ ~ReqOverflows
    /\ ReqAddr % ReportedSectorSize = 0
    /\ last.args.bufsize % ReportedSectorSize # 0
    /\ last.err = ESP_ERR_INVALID_ARG

\* the read primitive of the active backend
ReadPrimitive == IF OnFlash THEN "wl_read" ELSE "sdmmc_read_sectors"

\* C3: a read request whose address does not overflow is never rejected for
\* misalignment: aligned or not, the active backend's read primitive is invoked
\* exactly once, and the request's result is that primitive's result.
C3_ReadNotAlignmentChecked ==
    (IsRead /\ ValidBackend /\ ~ReqOverflows)
        => /\ Completed
           /\ Len(calls) = 1
           /\ calls[1].op = ReadPrimitive
           /\ last.err = calls[1].res

\* a read with misaligned address and size reached the backend and succeeded
C3_Witness ==
    /\ IsRead /\ ValidBackend /\ ReportedSectorSize > 0 /\ ~ReqOverflows
    /\ ReqAddr % ReportedSectorSize # 0
    /\ last.args.bufsize % ReportedSectorSize # 0
    /\ Len(calls) = 1 /\ calls[1].op = ReadPrimitive
    /\ last.err = ESP_OK

\* C4: on the flash backend every call of wl_write is the second call of its
\* request, preceded by a successful wl_erase_range of the same address and
\* size; when the erase fails the request returns the erase error.
C4_WriteOnlyAfterErase ==
    /\ \A i \in 1..Len(calls) :
          calls[i].op = "wl_write"
              => /\ i = 2
                 /\ calls[1].op = "wl_erase_range"
                 /\ calls[1].res = ESP_OK
                 /\ calls[1].addr = calls[2].addr
                 /\ calls[1].size = calls[2].size
                 /\ calls[1].handle = calls[2].handle
    /\ (IsWrite /\ Len(calls) >= 1 /\ calls[1].op = "wl_erase_range"
            /\ calls[1].res # ESP_OK)
          => (Len(calls) = 1 /\ Completed /\ last.err = calls[1].res)

\* a flash write whose erase failed
C4_Witness ==
    /\ IsWrite /\ OnFlash
    /\ Len(calls) = 1
    /\ calls[1].op = "wl_erase_range"
    /\ calls[1].res = ESP_FAIL
    /\ last.err = ESP_FAIL

\* at most one handle is allocated, the global pointer refers to it, and it is
\* bound to exactly one backend
C5_AtMostOneHandle ==
    /\ Cardinality(allocated) <= 1
    /\ IF s_storage_handle = NULL THEN allocated = {}
       ELSE /\ allocated = {s_storage_handle}
            /\ Handle.member \in {"wl_handle", "card"}

\* a step of either init operation taken while a handle exists fails its
\* assertion and changes nothing
C5_SecondInitRejected ==
    (s_storage_handle # NULL /\ last'.op \in InitOps)
        => /\ last'.status = "abort"
           /\ s_storage_handle' = s_storage_handle
           /\ heap' = heap
           /\ allocated' = allocated

\* C5: after any sequence of init and deinit calls at most one handle exists,
\* bound to exactly one backend, and an init call made while a handle exists is
\* rejected by assertion and leaves the handle as it was.
C5_SingleHandle == [](C5_AtMostOneHandle) /\ [][C5_SecondInitRejected]_vars

\* an SD/MMC init was rejected while a flash handle existed
C5_Witness ==
    /\ last.op = "tinyusb_msc_storage_init_sdmmc"
    /\ last.status = "abort"
    /\ OnFlash
    /\ Handle.read = "_read_sector_spiflash"

CallbackOps == {"tinyusb_msc_register_callback", "tinyusb_msc_unregister_callback"}
KnownEvents == {TINYUSB_MSC_EVENT_MOUNT_CHANGED, TINYUSB_MSC_EVENT_PREMOUNT_CHANGED}

\* a register or unregister step with an unknown event kind, taken while a handle
\* exists, returns invalid_argument and changes no field of the handle
C6_UnknownEventStep ==
    (s_storage_handle # NULL /\ last'.op \in CallbackOps
        /\ last'.args.event_type \notin KnownEvents)
        => /\ last'.status = "returned"
           /\ last'.ret = ESP_ERR_INVALID_ARG
           /\ s_storage_handle' = s_storage_handle
           /\ heap' = heap
           /\ allocated' = allocated

\* C6: register_callback and unregister_callback with an event kind other than
\* mount_changed and premount_changed return invalid_argument and leave every
\* field of the handle unchanged.
C6_UnknownEventRejected == [][C6_UnknownEventStep]_vars

\* an unregister with an unknown event kind was rejected while both callbacks
\* were set
C6_Witness ==
    /\ last.op = "tinyusb_msc_unregister_callback"
    /\ last.args.event_type \notin KnownEvents
    /\ last.ret = ESP_ERR_INVALID_ARG
    /\ s_storage_handle # NULL
    /\ Handle.callback_mount_changed # NULL
    /\ Handle.callback_premount_changed # NULL

\* C7: an aligned write on the flash backend whose address does not overflow
\* erases exactly once, the range [addr, addr + size) with
\* addr = lba * sector_size + offset, and, when the erase succeeds, then writes
\* exactly once, size bytes at addr.
C7_FlashWriteErasesThenWrites ==
    (IsWrite /\ OnFlash /\ ValidBackend /\ ReportedSectorSize > 0
        /\ ~ReqOverflows /\ ~ReqMisaligned)
        => /\ Completed
           /\ Len(calls) >= 1
           /\ calls[1].op = "wl_erase_range"
           /\ calls[1].handle = Handle.ref
           /\ calls[1].addr = ReqAddr
           /\ calls[1].size = last.args.bufsize
           /\ IF calls[1].res = ESP_OK
              THEN /\ Len(calls) = 2
                   /\ calls[2].op = "wl_write"
                   /\ calls[2].handle = Handle.ref
                   /\ calls[2].addr = ReqAddr
                   /\ calls[2].size = last.args.bufsize
              ELSE Len(calls) = 1

\* sector_size 512, lba 10, offset 0, size 512: one write of 512 bytes at 5120
C7_Witness ==
    /\ IsWrite /\ OnFlash /\ ReportedSectorSize = 512
    /\ last.args = [lba |-> 10, offset |-> 0, bufsize |-> 512]
    /\ Len(calls) = 2
    /\ calls[1].op = "wl_erase_range" /\ calls[1].res = ESP_OK
    /\ calls[2].op = "wl_write" /\ calls[2].addr = 5120 /\ calls[2].size = 512

\* C8: the generic SCSI callback returns 0 and sets no sense condition for
\* prevent/allow medium removal (0x1E); for every other operation code it sets
\* the sense condition illegal-request / invalid-command-operation-code and
\* returns a negative value.  It invokes no backend primitive.
C8_ScsiCommand ==
    last.op = "tud_msc_scsi_cb"
        => /\ Completed
           /\ NoBackendCall
           /\ IF last.args.scsi_cmd0 = 30
              THEN last.ret = 0 /\ calls = <<>>
              ELSE /\ last.ret < 0
                   /\ calls = <<[op |-> "tud_msc_set_sense", lun |-> last.args.lun,
                                 sense_key |-> 5, asc |-> 32, ascq |-> 0]>>

\* operation code 0x00 was refused with the sense condition set
C8_Witness ==
    /\ last.op = "tud_msc_scsi_cb"
    /\ last.args.scsi_cmd0 = 0
    /\ last.ret < 0
    /\ Len(calls) = 1 /\ calls[1].op = "tud_msc_set_sense"

\* neither the translator nor a backend primitive reported a failure: the
\* request reached the backend and every primitive it invoked returned ESP_OK
NoFailureReported ==
    /\ Len(calls) >= 1
    /\ \A i \in 1..Len(calls) : calls[i].res = ESP_OK

\* C9: READ10 and WRITE10 return 0 whenever the translator or a backend
\* primitive reports a failure, and the requested size whenever none does.
C9_ZeroOnFailure ==
    ((IsRead \/ IsWrite) /\ Completed)
        => /\ (last.err = ESP_OK) <=> NoFailureReported
           /\ last.ret = IF NoFailureReported THEN last.args.bufsize ELSE 0

\* a READ10 whose backend read failed returned 0
C9_Witness ==
    /\ IsRead /\ Completed
    /\ Len(calls) = 1 /\ calls[1].res = ESP_FAIL
    /\ last.ret = 0

\* C10: while the handle exists its four capability entries are non-null and
\* all belong to the backend of the handle's backend reference.
C10_CapabilitiesMatchBackend ==
    s_storage_handle # NULL
        => /\ Handle.sector_count # FN_NULL /\ Handle.sector_size # FN_NULL
           /\ Handle.read # FN_NULL /\ Handle.write # FN_NULL
           /\ \/ /\ Handle.member = "wl_handle"
                 /\ Handle.sector_count = "_get_sector_count_spiflash"
                 /\ Handle.sector_size = "_get_sector_size_spiflash"
                 /\ Handle.read = "_read_sector_spiflash"
                 /\ Handle.write = "_write_sector_spiflash"
              \/ /\ Handle.member = "card"
                 /\ Handle.sector_count = "_get_sector_count_sdmmc"
                 /\ Handle.sector_size = "_get_sector_size_sdmmc"
                 /\ Handle.read = "_read_sector_sdmmc"
                 /\ Handle.write = "_write_sector_sdmmc"

\* an SD/MMC handle created after a flash handle was destroyed
C10_Witness ==
    /\ last.op = "tinyusb_msc_storage_init_sdmmc" /\ Completed
    /\ last.ret = ESP_OK
    /\ OnSdmmc
    /\ Handle.ref = last.args.card

\* geometry queries and SCSI command callbacks
QueryOps ==
    {"tinyusb_msc_storage_get_sector_count", "tinyusb_msc_storage_get_sector_size",
     "tud_msc_inquiry_cb", "tud_msc_test_unit_ready_cb", "tud_msc_capacity_cb",
     "tud_msc_start_stop_cb", "tud_msc_read10_cb", "tud_msc_write10_cb",
     "tud_msc_scsi_cb"}

\* backend_ref and capability_table of a handle
BackendOf(h) ==
    [member |-> h.member, ref |-> h.ref, sector_count |-> h.sector_count,
     sector_size |-> h.sector_size, read |-> h.read, write |-> h.write]

\* a step taken while a handle exists: a handle that exists afterwards is the
\* same handle with the same backend; a geometry query or SCSI callback changes
\* no field of it; the handle disappears only by deinit
C11_BackendFixedStep ==
    s_storage_handle # NULL
        => /\ s_storage_handle' # NULL
                 => /\ s_storage_handle' = s_storage_handle
                    /\ allocated' = allocated
                    /\ BackendOf(heap'[s_storage_handle']) = BackendOf(Handle)
           /\ s_storage_handle' = NULL => last'.op = "tinyusb_msc_storage_deinit"
           /\ last'.op \in CallbackOps => s_storage_handle' # NULL
           /\ last'.op \in QueryOps
                 => /\ s_storage_handle' = s_storage_handle
                    /\ heap' = heap
                    /\ allocated' = allocated

\* C11: while a handle exists, register_callback, unregister_callback, the
\* geometry queries and the SCSI callbacks, succeeding or failing, leave
\* backend_ref and capability_table as init chose them, and the queries and SCSI
\* callbacks change no field of the handle; the backend changes only through
\* deinit and a new init.
C11_BackendFixed == [][C11_BackendFixedStep]_vars

\* a callback was registered on an SD/MMC handle, whose backend is as init bound it
C11_Witness ==
    /\ last.op = "tinyusb_msc_register_callback"
    /\ last.ret = ESP_OK
    /\ last.args.event_type = TINYUSB_MSC_EVENT_MOUNT_CHANGED
    /\ OnSdmmc
    /\ Handle.callback_mount_changed = last.args.callback
    /\ Handle.callback_mount_changed # NULL
    /\ BackendOf(Handle) = [member |-> "card", ref |-> Handle.ref,
                            sector_count |-> "_get_sector_count_sdmmc",
                            sector_size |-> "_get_sector_size_sdmmc",
                            read |-> "_read_sector_sdmmc",
                            write |-> "_write_sector_sdmmc"]

\* the backend_ref and capability_table the init operation op binds for config
OwnBackend(op, config) ==
    IF op = "tinyusb_msc_storage_init_spiflash"
    THEN [member |-> "wl_handle", ref |-> config.wl_handle,
          sector_count |-> "_get_sector_count_spiflash",
          sector_size |-> "_get_sector_size_spiflash",
          read |-> "_read_sector_spiflash", write |-> "_write_sector_spiflash"]
    ELSE [member |-> "card", ref |-> config.card,
          sector_count |-> "_get_sector_count_sdmmc",
          sector_size |-> "_get_sector_size_sdmmc",
          read |-> "_read_sector_sdmmc", write |-> "_write_sector_sdmmc"]

\* after a deinit that returned, the global reference is null and no block is
\* allocated
C12_NoHandleAfterDeinit ==
    (last.op = "tinyusb_msc_storage_deinit" /\ Completed)
        => (s_storage_handle = NULL /\ allocated = {})

\* an init step taken after a deinit (no handle, a backend was released) is not
\* rejected, and when its allocation succeeds it returns ESP_OK with a handle
\* bound to its own backend and capability set
C12_InitAfterDeinitStep ==
    (s_storage_handle = NULL /\ last.released # "none" /\ last'.op \in InitOps)
        => /\ last'.status = "returned"
           /\ calls'[1].op = "malloc"
           /\ calls'[1].res # NULL
                 => /\ last'.ret = ESP_OK
                    /\ s_storage_handle' # NULL
                    /\ BackendOf(heap'[s_storage_handle'])
                           = OwnBackend(last'.op, last'.args)

\* C12: after a successful deinit no handle exists (the global reference is
\* null), and a subsequent call of either init operation whose allocation
\* succeeds returns success and binds that operation's own backend and
\* capability set, whichever backend was active before the deinit.
C12_DeinitThenInit ==
    [](C12_NoHandleAfterDeinit) /\ [][C12_InitAfterDeinitStep]_vars

\* an SD/MMC handle was created after the deinit of a flash handle
C12_Witness ==
    /\ last.op = "tinyusb_msc_storage_init_sdmmc"
    /\ last.ret = ESP_OK
    /\ last.released = "wl_handle"
    /\ OnSdmmc
    /\ BackendOf(Handle) = OwnBackend(last.op, last.args)

\* the last operation was an init whose allocation failed
AllocationFailed ==
    /\ last.op \in InitOps
    /\ Len(calls) >= 1
    /\ calls[1] = [op |-> "malloc", res |-> NULL]

\* an init whose allocation failed returned no_memory, called nothing but malloc,
\* and left no handle and no block written
C13_NoMemory ==
    AllocationFailed
        => /\ Completed
           /\ last.ret = ESP_ERR_NO_MEM
           /\ Len(calls) = 1
           /\ s_storage_handle = NULL
           /\ allocated = {}
           /\ \A b \in Blocks : heap[b] = NoHandle

\* an init step that follows a failed allocation is not rejected as a second init
C13_LaterInitAcceptedStep ==
    (AllocationFailed /\ last'.op \in InitOps)
        => /\ last'.status = "returned"
           /\ calls'[1].res # NULL => (last'.ret = ESP_OK /\ s_storage_handle' # NULL)

\* C13: when the allocation of the handle fails, either init operation returns
\* no_memory without invoking a backend or callback-registration operation, no
\* handle exists afterwards, and a later init call is accepted.
C13_AllocationFailure == [](C13_NoMemory) /\ [][C13_LaterInitAcceptedStep]_vars

\* an SD/MMC init that was given a mount callback failed for lack of memory and
\* left no handle
C13_Witness ==
    /\ last.op = "tinyusb_msc_storage_init_sdmmc"
    /\ calls = <<[op |-> "malloc", res |-> NULL]>>
    /\ last.ret = ESP_ERR_NO_MEM
    /\ last.args.callback_mount_changed # NULL
    /\ s_storage_handle = NULL

\* the last operation was an init that created the handle
InitSucceeded == last.op \in InitOps /\ Completed /\ last.ret = ESP_OK

\* max_open_files of an existing handle is positive
C14_MaxFilesPositive == s_storage_handle # NULL => Handle.max_files > 0

\* a successful init stores the supplied value when it is positive, and 2 otherwise
C14_MaxFilesAsSupplied ==
    InitSucceeded
        => Handle.max_files
              = IF last.args.max_files > 0 THEN last.args.max_files ELSE 2

\* a step that keeps the handle keeps its max_open_files
C14_MaxFilesKeptStep ==
    (s_storage_handle # NULL /\ s_storage_handle' # NULL)
        => heap'[s_storage_handle'].max_files = Handle.max_files

\* C14: whenever the handle exists max_open_files is positive; after either
\* init it is the supplied value when that is > 0 and 2 when it is <= 0; no
\* later operation changes it.
C14_MaxOpenFiles ==
    /\ [](C14_MaxFilesPositive /\ C14_MaxFilesAsSupplied)
    /\ [][C14_MaxFilesKeptStep]_vars

\* an SD/MMC init that was given max_files = 0 created a handle with 2
C14_Witness ==
    /\ last.op = "tinyusb_msc_storage_init_sdmmc"
    /\ InitSucceeded
    /\ last.args.max_files = 0
    /\ Handle.max_files = 2

\* the last request passes the local checks of its path: no overflow on a write
\* or a flash read, and alignment on a write (for a non-zero sector size)
PassesLocalChecks ==
    /\ ValidBackend
    /\ ReportedSectorSize > 0
    /\ \/ IsRead /\ OnSdmmc
       \/ IsRead /\ OnFlash /\ ~ReqOverflows
       \/ IsWrite /\ ~ReqOverflows /\ ~ReqMisaligned

\* C15: a read or write request that passes the local checks reaches the
\* backend, and the result of a request that reaches the backend is the error
\* code of the last primitive it invoked, unchanged; every primitive before the
\* last one succeeded, and no primitive is invoked twice for one request.
C15_BackendErrorUnchanged ==
    /\ PassesLocalChecks => (Completed /\ Len(calls) >= 1)
    /\ ((IsRead \/ IsWrite) /\ Completed /\ Len(calls) >= 1)
          => /\ \A i \in 1..Len(calls) : calls[i].op \in BackendPrimitives
             /\ last.err = calls[Len(calls)].res
             /\ \A i \in 1..(Len(calls) - 1) : calls[i].res = ESP_OK
             /\ \A i, j \in 1..Len(calls) : calls[i].op = calls[j].op => i = j

\* an SD/MMC write whose card reported invalid_argument returned that code after
\* one call of the primitive
C15_Witness ==
    /\ IsWrite /\ OnSdmmc /\ PassesLocalChecks
    /\ Len(calls) = 1
    /\ calls[1].op = "sdmmc_write_sectors"
    /\ calls[1].res = ESP_ERR_INVALID_ARG
    /\ last.err = ESP_ERR_INVALID_ARG

\* the sector primitive an SD/MMC request of the last operation's kind invokes
SdmmcPrimitive == IF IsRead THEN "sdmmc_read_sectors" ELSE "sdmmc_write_sectors"

ReportedSectorCount ==
    IF Handle.member = "wl_handle"
    THEN (IF wl_sector_size(Handle.ref) = 0 THEN 0
          ELSE wl_size(Handle.ref) \div wl_sector_size(Handle.ref))
    ELSE csd_capacity(Handle.ref)

\* C17: on both backends the capacity query reports block_count = sector_count
\* and block_size = sector_size modulo 2^16 (2^Uint16Bits in the scaled widths),
\* which is sector_size itself when that fits.
C17_CapacityReport ==
    (last.op = "tud_msc_capacity_cb" /\ ValidBackend)
        => /\ Completed
           /\ calls = <<>>
           /\ last.ret.block_count = ReportedSectorCount
           /\ last.ret.block_size = ReportedSectorSize % UINT16_MOD
           /\ ReportedSectorSize < UINT16_MOD
                 => last.ret.block_size = ReportedSectorSize

\* the capacity of a card whose sector size does not fit the block size field:
\* the count is reported as it is, the size truncated
C17_Witness ==
    /\ last.op = "tud_msc_capacity_cb" /\ Completed
    /\ OnSdmmc
    /\ ReportedSectorSize >= UINT16_MOD
    /\ last.ret.block_count = csd_capacity(Handle.ref)
    /\ last.ret.block_size # ReportedSectorSize

GeometryOps ==
    {"tinyusb_msc_storage_get_sector_count", "tinyusb_msc_storage_get_sector_size"}

\* what the two geometry queries return on a flash handle, with no call into the
\* wear-levelling read, erase or write
C18_FlashGeometryValues ==
    (last.op \in GeometryOps /\ OnFlash /\ ValidBackend)
        => /\ Completed
           /\ calls = <<>>
           /\ last.op = "tinyusb_msc_storage_get_sector_count"
                 => last.ret = IF wl_sector_size(Handle.ref) = 0 THEN 0
                               ELSE wl_size(Handle.ref) \div wl_sector_size(Handle.ref)
           /\ last.op = "tinyusb_msc_storage_get_sector_size"
                 => last.ret = wl_sector_size(Handle.ref)

\* a geometry query on a flash handle changes neither the pointer nor the handle
C18_FlashGeometryStep ==
    (OnFlash /\ last'.op \in GeometryOps)
        => /\ s_storage_handle' = s_storage_handle
           /\ heap' = heap
           /\ allocated' = allocated

\* C18: on the flash backend sector_count() is 0 when the wear-levelling layer
\* reports a sector size of zero (it returns, no division is made) and
\* volume_size / sector_size (integer division) otherwise; sector_size() is the
\* wear-levelling sector size; neither changes the handle or touches the medium.
C18_FlashGeometry ==
    [](C18_FlashGeometryValues) /\ [][C18_FlashGeometryStep]_vars

\* the sector count of a non-empty volume whose sector size is zero was 0
C18_Witness ==
    /\ last.op = "tinyusb_msc_storage_get_sector_count" /\ Completed
    /\ OnFlash /\ ValidBackend
    /\ wl_sector_size(Handle.ref) = 0
    /\ wl_size(Handle.ref) > 0
    /\ last.ret = 0

\* after a successful init each callback is the one the configuration supplied,
\* null when it supplied none
C19_CallbacksAsConfigured ==
    InitSucceeded
        => /\ Handle.callback_mount_changed = last.args.callback_mount_changed
           /\ Handle.callback_premount_changed = last.args.callback_premount_changed

\* the callback a register or unregister step stores
StoredCallback(l) ==
    IF l.op = "tinyusb_msc_register_callback" THEN l.args.callback ELSE NULL

\* a register or unregister step with a known kind, taken while a handle exists,
\* succeeds and changes the callback of that kind and nothing else
C19_CallbackStep ==
    (s_storage_handle # NULL /\ last'.op \in CallbackOps
        /\ last'.args.event_type \in KnownEvents)
        => /\ last'.status = "returned"
           /\ last'.ret = ESP_OK
           /\ s_storage_handle' = s_storage_handle
           /\ allocated' = allocated
           /\ heap' = [heap EXCEPT ![s_storage_handle] =
                  IF last'.args.event_type = TINYUSB_MSC_EVENT_MOUNT_CHANGED
                  THEN [Handle EXCEPT !.callback_mount_changed = StoredCallback(last')]
                  ELSE [Handle EXCEPT !.callback_premount_changed = StoredCallback(last')]]

\* C19: after a successful init mount_changed is the callback of the init
\* configuration, or null when none was supplied, and independently so is
\* premount_changed; afterwards register_callback(kind, cb) sets and
\* unregister_callback(kind) clears the callback of that kind only, leaving the
\* other callback and every other field of the handle unchanged.
C19_Callbacks == [](C19_CallbacksAsConfigured) /\ [][C19_CallbackStep]_vars

\* the mount callback was unregistered while the premount callback stayed set
C19_Witness ==
    /\ last.op = "tinyusb_msc_unregister_callback"
    /\ last.args.event_type = TINYUSB_MSC_EVENT_MOUNT_CHANGED
    /\ last.ret = ESP_OK
    /\ s_storage_handle # NULL
    /\ Handle.callback_mount_changed = NULL
    /\ Handle.callback_premount_changed # NULL

ReadyOps == {"tud_msc_test_unit_ready_cb", "tud_msc_start_stop_cb"}

\* test-unit-ready and start-stop return true, inquiry returns its fixed
\* strings, and none of the three calls a collaborator
C20_ReadyValues ==
    /\ last.op \in ReadyOps => (Completed /\ last.ret = TRUE /\ calls = <<>>)
    /\ last.op = "tud_msc_inquiry_cb"
          => /\ Completed
             /\ calls = <<>>
             /\ last.ret = [vendor_id |-> "TinyUSB", product_id |-> "Flash Storage",
                            product_rev |-> "0.1"]

\* a test-unit-ready, start-stop or inquiry step changes neither the pointer nor
\* the handle, whether a handle exists or not
C20_ReadyStep ==
    last'.op \in ReadyOps \cup {"tud_msc_inquiry_cb"}
        => /\ s_storage_handle' = s_storage_handle
           /\ heap' = heap
           /\ allocated' = allocated

\* C20: test-unit-ready and start-stop report ready / success in every state,
\* with or without a handle; they and inquiry invoke no backend primitive and
\* leave the handle as it is.
C20_AlwaysReady == [](C20_ReadyValues) /\ [][C20_ReadyStep]_vars

\* test-unit-ready reported ready while no handle existed
C20_Witness ==
    /\ last.op = "tud_msc_test_unit_ready_cb"
    /\ Completed
    /\ last.ret = TRUE
    /\ s_storage_handle = NULL
    /\ allocated = {}

\* the last READ10 / WRITE10 reported a non-zero byte count
ReportedTransfer == (IsRead \/ IsWrite) /\ Completed /\ last.ret # 0

\* the transfer the backend was asked for by the last call of the request:
\* its start as a byte address and its length in bytes
AskedStart ==
    IF OnFlash THEN calls[Len(calls)].addr
    ELSE calls[Len(calls)].start_sector * ReportedSectorSize
AskedBytes ==
    IF OnFlash THEN calls[Len(calls)].size
    ELSE calls[Len(calls)].sector_count * ReportedSectorSize

\* C21: whenever READ10 or WRITE10 returns a non-zero byte count n, the active
\* backend was asked to transfer exactly n bytes starting at byte address
\* lba * sector_size + offset (on SD/MMC: sector count times sector size is n
\* and start sector times sector size is that address).  The SD/MMC path
\* violates it: it asks for size / sector_size sectors starting at sector lba,
\* whatever the offset and the remainder of the division.
C21_TransferAsReported ==
    ReportedTransfer
        => /\ Len(calls) >= 1
           /\ calls[Len(calls)].op \in BackendPrimitives \ {"wl_erase_range"}
           /\ AskedStart = ReqAddr
           /\ AskedBytes = last.ret

\* a READ10 of 512 bytes at offset 512 of sector 10, on a card with 4096-byte
\* sectors, asked the card for 0 sectors at sector 10 and reported 512 bytes
C21_Witness ==
    /\ IsRead /\ OnSdmmc /\ ReportedSectorSize = 4096
    /\ last.args = [lba |-> 10, offset |-> 512, bufsize |-> 512]
    /\ calls = <<[op |-> "sdmmc_read_sectors", card |-> Handle.ref,
                  start_sector |-> 10, sector_count |-> 0, res |-> ESP_OK]>>
    /\ last.ret = 512

\* success, invalid_size, invalid_argument or a backend I/O error
RequestResults ==
    {ESP_OK, ESP_ERR_INVALID_SIZE, ESP_ERR_INVALID_ARG} \cup BackendErrs

\* C22: for every sector size the backend reports, zero included, every read
\* and write request on an existing handle completes with success,
\* invalid_size, invalid_argument or a backend I/O error, and none evaluates a
\* modulo or division by a zero sector size (an evaluation whose trapping
\* outcome is the status "trap").  The write path violates it: with a zero
\* sector size the product does not overflow and addr % sector_size is
\* evaluated.
C22_NoZeroDivision ==
    ((IsRead \/ IsWrite) /\ ValidBackend)
        => /\ last.status # "trap"
           /\ Completed
           /\ last.err \in RequestResults

\* a WRITE10 on a flash volume that reports a zero sector size trapped in the
\* alignment test, before any backend primitive was invoked
C22_Witness ==
    /\ IsWrite /\ OnFlash /\ ValidBackend
    /\ ReportedSectorSize = 0
    /\ last.args = [lba |-> 10, offset |-> 0, bufsize |-> 512]
    /\ last.status = "trap"
    /\ calls = <<>>
    /\ halted

====
